---- MODULE Spec2Model ----
(***************************************************************************)
(* Micro-batch CSV loader: Pipeline (Pipeline.py) driving the in-memory    *)
(* Stats accumulator (Stats.py) and a transactional PostgreSQL store.      *)
(***************************************************************************)
EXTENDS Integers, Sequences, FiniteSets, TLC

VARIABLES
    connection,             \* Pipeline.connection: "none" | "open" | "closed"
    cursor,                 \* Pipeline.cursor: "none" | "open" | "closed"
    chunk_size,             \* Pipeline.chunk_size
    stats,                  \* Pipeline.stats: COUNT, SUM, MIN_VALUE, MAX_VALUE
    committed,              \* rows of table transactions that are committed
    pending,                \* rows written by the transaction in flight
    pc,                     \* position inside process_csv_file / the caller
    calls,                  \* process_csv_file calls started so far
    file,                   \* rows of the CSV file at filepath
    update_per_row,         \* argument update_per_row
    offset,                 \* local offset
    total_rows_processed,   \* local total_rows_processed
    chunk,                  \* local chunk (the collected window)
    records,                \* local records
    i,                      \* loop index of _process_row_by_row
    windows,                \* history: heights of the windows collected by the call
    stats0,                 \* history: stats when the call started
    committed0,             \* history: committed rows when the call started
    failed_calls,           \* history: calls that raised so far
    db_stats,               \* last result of verify_results_from_db
    first,                  \* accumulator harness: the first of two batches
    twin,                   \* accumulator harness: a second Stats object
    snapshot,               \* accumulator harness: last get_current_stats result
    reads,                  \* accumulator harness: get_current_stats calls since the last update
    main                    \* main.py: position, loop variable i, files in DATA_DIR, calls made

vars == <<connection, cursor, chunk_size, stats, committed, pending, pc, calls, file,
          update_per_row, offset, total_rows_processed, chunk, records, i,
          windows, stats0, committed0, failed_calls, db_stats, first, twin,
          snapshot, reads, main>>

----------------------------------------------------------------------------
(* Bounds *)

MaxChunk == 2       \* chunk sizes 1..MaxChunk
MaxRows  == 3       \* rows per file 0..MaxRows
MaxCalls == 1       \* process_csv_file calls per run
MaxLen   == 2       \* accumulator harness: values per batch
MaxCount == 4       \* accumulator harness: values folded per run
MantBits == 2       \* significant bits kept by a float (53 in the program)
MaxReads == 2       \* accumulator harness: get_current_stats calls between updates

----------------------------------------------------------------------------
(* Floats: a finite number (an integer number of units, rounded to         *)
(* MantBits significant bits), NaN, +inf, -inf; and the null of a column.  *)

F(n)  == [k |-> "num", v |-> n]
NaN   == [k |-> "nan", v |-> 0]
PInf  == [k |-> "inf", v |-> 0]
NInf  == [k |-> "ninf", v |-> 0]
Null  == [k |-> "null", v |-> 0]

RECURSIVE Pow2(_)
Pow2(n) == IF n <= 0 THEN 1 ELSE 2 * Pow2(n - 1)

RECURSIVE Log2Floor(_)
Log2Floor(n) == IF n <= 1 THEN 0 ELSE 1 + Log2Floor(n \div 2)

Abs(n) == IF n < 0 THEN -n ELSE n

\* round to nearest, ties to even, keeping MantBits significant bits
Round(n) ==
    LET a == Abs(n)
    IN  IF a < Pow2(MantBits) THEN n
        ELSE LET q  == Pow2(Log2Floor(a) - MantBits + 1)
                 m  == a \div q
                 r  == a % q
                 m2 == IF 2 * r > q \/ (2 * r = q /\ m % 2 = 1) THEN m + 1 ELSE m
             IN  IF n < 0 THEN -(m2 * q) ELSE m2 * q

\* float.__add__
FAdd(a, b) ==
    IF a.k = "nan" \/ b.k = "nan" THEN NaN
    ELSE IF a.k = "num" /\ b.k = "num" THEN F(Round(a.v + b.v))
    ELSE IF a.k = "num" THEN b
    ELSE IF b.k = "num" THEN a
    ELSE IF a.k = b.k THEN a ELSE NaN

\* float.__lt__ : every comparison with NaN is false
FLt(a, b) ==
    IF a.k = "nan" \/ b.k = "nan" THEN FALSE
    ELSE IF a.k = "ninf" THEN b.k # "ninf"
    ELSE IF a.k = "inf" THEN FALSE
    ELSE IF b.k = "inf" THEN TRUE
    ELSE IF b.k = "ninf" THEN FALSE
    ELSE a.v < b.v

FLe(a, b) ==
    IF a.k = "nan" \/ b.k = "nan" THEN FALSE ELSE ~FLt(b, a)

\* builtin min(a, b): b only when b < a
PyMin(a, b) == IF FLt(b, a) THEN b ELSE a

\* builtin max(a, b): b only when b > a
PyMax(a, b) == IF FLt(a, b) THEN b ELSE a

\* Series.to_numpy() of a Float64 series: null becomes NaN
ToNumpy(prices) ==
    [j \in 1..Len(prices) |-> IF prices[j].k = "null" THEN NaN ELSE prices[j]]

\* ndarray.sum(): left to right for fewer than 8 elements
RECURSIVE NpSum(_)
NpSum(pv) ==
    IF Len(pv) = 0 THEN F(0)
    ELSE LET n == Len(pv)
             running == {NpSum(SubSeq(pv, 1, n - 1))}   \* the total so far, computed once
         IN  CHOOSE s \in {FAdd(x, pv[n]) : x \in running} : TRUE

HasNaN(pv) == \E j \in 1..Len(pv) : pv[j].k = "nan"

\* ndarray.min(): NaN when any element is NaN
NpMin(pv) ==
    IF HasNaN(pv) THEN NaN
    ELSE pv[CHOOSE j \in 1..Len(pv) : \A l \in 1..Len(pv) : ~FLt(pv[l], pv[j])]

\* ndarray.max(): NaN when any element is NaN
NpMax(pv) ==
    IF HasNaN(pv) THEN NaN
    ELSE pv[CHOOSE j \in 1..Len(pv) : \A l \in 1..Len(pv) : ~FLt(pv[j], pv[l])]

----------------------------------------------------------------------------
(* Stats.py *)

\* the dataclass defaults
StatsInit == [COUNT |-> 0, SUM |-> F(0), MIN_VALUE |-> PInf, MAX_VALUE |-> NInf]

\* update_from_batch whose empty batch starts the accumulator over
UpdateResettingOnEmpty(s, prices) ==
    IF Len(prices) = 0 THEN StatsInit
    ELSE LET price_values == ToNumpy(prices)
         IN  [COUNT     |-> s.COUNT + Len(price_values),
              SUM       |-> FAdd(s.SUM, NpSum(price_values)),
              MIN_VALUE |-> PyMin(s.MIN_VALUE, NpMin(price_values)),
              MAX_VALUE |-> PyMax(s.MAX_VALUE, NpMax(price_values))]

\* update_from_batch with SUM assigned instead of accumulated
UpdateAssigningSum(s, prices) ==
    IF Len(prices) = 0 THEN s
    ELSE LET price_values == ToNumpy(prices)
         IN  [COUNT     |-> s.COUNT + Len(price_values),
              SUM       |-> NpSum(price_values),
              MIN_VALUE |-> PyMin(s.MIN_VALUE, NpMin(price_values)),
              MAX_VALUE |-> PyMax(s.MAX_VALUE, NpMax(price_values))]

\* Stats.update_from_batch
UpdateFromBatch(s, prices) ==
    IF Len(prices) = 0 THEN s
    ELSE LET price_values == ToNumpy(prices)
         IN  [COUNT     |-> s.COUNT + Len(price_values),
              SUM       |-> FAdd(s.SUM, NpSum(price_values)),
              MIN_VALUE |-> PyMin(s.MIN_VALUE, NpMin(price_values)),
              MAX_VALUE |-> PyMax(s.MAX_VALUE, NpMax(price_values))]

\* float.__truediv__ by a positive int: the nearest float, ties to even
FDiv(a, n) ==
    IF a.k # "num" THEN a
    ELSE LET x  == Abs(a.v)
             q  == x \div n
             r  == x % n
             q2 == IF 2 * r > n \/ (2 * r = n /\ q % 2 = 1) THEN q + 1 ELSE q
         IN  F(Round(IF a.v < 0 THEN -q2 ELSE q2))

\* Stats._mean
Mean(s) == IF s.COUNT > 0 THEN FDiv(s.SUM, s.COUNT) ELSE F(0)

\* get_current_stats handing out MIN_VALUE and MAX_VALUE as they are
GetCurrentStatsRaw(s) ==
    [count |-> s.COUNT,
     mean  |-> Mean(s),
     min   |-> s.MIN_VALUE,
     max   |-> s.MAX_VALUE]

\* Stats.get_current_stats
GetCurrentStats(s) ==
    [count |-> s.COUNT,
     mean  |-> Mean(s),
     min   |-> IF s.MIN_VALUE # PInf THEN s.MIN_VALUE ELSE F(0),
     max   |-> IF s.MAX_VALUE # NInf THEN s.MAX_VALUE ELSE F(0)]

----------------------------------------------------------------------------
(* Input files and the store *)

\* a CSV row: does the date field match %m/%d/%Y, and the price field
Row(ok, p) == [date_ok |-> ok, price |-> p]

Prices == {F(-1), F(2), Null}

Rows == {Row(TRUE, p) : p \in Prices} \cup {Row(FALSE, F(2))}

Files == UNION {[1..n -> Rows] : n \in 0..MaxRows}

\* a row of table transactions (timestamp and user_id are not modelled)
Record(p, filename) == [price |-> p, file_source |-> filename]

\* rows a previous run may have left in the table
Leftover == Record(F(2), 0)

Min2(a, b) == IF a < b THEN a ELSE b

\* slice with a window one row too long
SliceOneMore(f, off, length) == SubSeq(f, off + 1, Min2(off + length + 1, Len(f)))

\* LazyFrame.slice(offset, length).collect()
Slice(f, off, length) == SubSeq(f, off + 1, Min2(off + length, Len(f)))

\* pl.col("price").fill_null(0)
FillNull(c) ==
    [j \in 1..Len(c) |-> IF c[j].price.k = "null" THEN F(0) ELSE c[j].price]

\* Pipeline._prepare_records: strptime raises on a malformed date
PrepareRaises(c) == \E j \in 1..Len(c) : ~c[j].date_ok

\* Pipeline._prepare_records: the tuples built from the null-filled copy
PrepareRecords(c, filename) ==
    [j \in 1..Len(c) |-> Record(FillNull(c)[j], filename)]

\* chunk.get_column('price').cast(pl.Float64) on the caller's chunk
PriceColumn(c) == [j \in 1..Len(c) |-> c[j].price]

\* the price column of the rows a query sees
StorePrices(rows) == [j \in 1..Len(rows) |-> rows[j].price]

\* AVG(price)::numeric(10,2): the quotient rounded half away from zero
NumericAvg(a, n) ==
    IF a.k # "num" THEN a
    ELSE LET x  == Abs(a.v)
             q  == x \div n
             q2 == IF 2 * (x % n) >= n THEN q + 1 ELSE q
         IN  F(IF a.v < 0 THEN -q2 ELSE q2)

\* verify_results_from_db, lines 210-227: the aggregate row, None mapped to 0
DbStats(rows) ==
    LET p == StorePrices(rows)
    IN  [count |-> Len(rows),
         mean  |-> IF Len(rows) = 0 THEN F(0) ELSE NumericAvg(NpSum(p), Len(rows)),
         min   |-> IF Len(rows) = 0 THEN F(0) ELSE NpMin(p),
         max   |-> IF Len(rows) = 0 THEN F(0) ELSE NpMax(p)]

----------------------------------------------------------------------------
(* Initial state: the Pipeline object after __init__ *)

\* main.py is not running
NoMain == [at |-> "none", i |-> 0, files |-> {}, rows |-> <<>>,
           calls |-> <<>>, failed |-> FALSE]

Init ==
    /\ connection = "none"
    /\ cursor = "none"
    /\ chunk_size \in 1..MaxChunk
    /\ stats = StatsInit
    /\ committed \in {<<>>, <<Leftover>>}
    /\ pending = <<>>
    /\ pc = "idle"
    /\ calls = 0
    /\ file = <<>>
    /\ update_per_row = FALSE
    /\ offset = 0
    /\ total_rows_processed = 0
    /\ chunk = <<>>
    /\ records = <<>>
    /\ i = 0
    /\ windows = <<>>
    /\ stats0 = StatsInit
    /\ committed0 = <<>>
    /\ failed_calls = 0
    /\ db_stats = DbStats(<<>>)
    /\ first = <<>>
    /\ twin = StatsInit
    /\ snapshot = GetCurrentStats(StatsInit)
    /\ reads = 0
    /\ main = NoMain

locals == <<file, update_per_row, offset, total_rows_processed, chunk, records, i>>
history == <<windows, stats0, committed0, failed_calls>>
harness == <<first, twin, snapshot, reads>>

\* Pipeline.connect: psycopg2.connect or connection.cursor may raise
Connect ==
    /\ pc = "idle"
    /\ connection = "none"
    /\ \/ /\ connection' = "open"
          /\ cursor' = "open"
          /\ pc' = "idle"
       \/ /\ connection' = "none"
          /\ cursor' = "none"
          /\ pc' = "aborted"
       \/ /\ connection' = "open"
          /\ cursor' = "none"
          /\ pc' = "aborted"
    /\ UNCHANGED <<chunk_size, stats, committed, pending, calls, locals,
                   history, db_stats, harness, main>>

\* process_csv_file(f, update_per_row = per_row), lines 76-86: entry
Call(f, per_row) ==
    /\ file' = f
    /\ update_per_row' = per_row
    /\ calls' = calls + 1
    /\ offset' = 0
    /\ total_rows_processed' = 0
    /\ chunk' = <<>>
    /\ records' = <<>>
    /\ i' = 0
    /\ windows' = <<>>
    /\ stats0' = stats
    /\ committed0' = committed
    /\ pc' = "slice"
    /\ UNCHANGED <<connection, chunk_size, stats, committed, pending,
                   failed_calls, db_stats, harness, cursor>>

\* some caller processes some file under some policy
ProcessCsvFile ==
    /\ pc = "idle"
    /\ connection = "open"
    /\ calls < MaxCalls
    /\ \E f \in Files, per_row \in BOOLEAN : Call(f, per_row)
    /\ UNCHANGED main

\* lines 89-92: collect the next window; an empty window ends the loop
Collect ==
    /\ pc = "slice"
    /\ chunk' = Slice(file, offset, chunk_size)
    /\ windows' = Append(windows, Len(chunk'))
    /\ pc' = IF Len(chunk') = 0 THEN "commit" ELSE "prepare"
    /\ UNCHANGED <<connection, chunk_size, stats, committed, pending, calls,
                   file, update_per_row, offset, total_rows_processed,
                   records, i, stats0, committed0, failed_calls, db_stats, harness, main, cursor>>

\* lines 95-102: _prepare_records, then the policy is chosen
Prepare ==
    /\ pc = "prepare"
    /\ IF PrepareRaises(chunk)
       THEN /\ pc' = "except"
            /\ UNCHANGED <<records, i>>
       ELSE /\ records' = PrepareRecords(chunk, calls)
            /\ i' = IF update_per_row THEN 1 ELSE 0
            /\ pc' = IF update_per_row THEN "row_insert" ELSE "write"
    /\ UNCHANGED <<connection, chunk_size, stats, committed, pending, calls,
                   file, update_per_row, offset, total_rows_processed, chunk,
                   history, db_stats, harness, main, cursor>>

\* _process_batch updating the accumulator although the bulk write failed
ExecuteBatchThenUpdate ==
    /\ pc = "write"
    /\ \/ /\ pending' = pending \o records
          /\ stats' = stats
          /\ pc' = "update"
       \/ \E k \in 0..(Len(records) - 1) :
             /\ pending' = pending \o SubSeq(records, 1, k)
             /\ stats' = UpdateFromBatch(stats, PriceColumn(chunk))
             /\ pc' = "except"
    /\ UNCHANGED <<connection, chunk_size, committed, calls, locals,
                   history, db_stats, harness, main, cursor>>

\* _process_batch, line 165: execute_batch writes the window, or is rejected
\* after some of its pages were written
ExecuteBatch ==
    /\ pc = "write"
    /\ \/ /\ pending' = pending \o records
          /\ pc' = "update"
       \/ \E k \in 0..(Len(records) - 1) :
             /\ pending' = pending \o SubSeq(records, 1, k)
             /\ pc' = "except"
    /\ UNCHANGED <<connection, chunk_size, stats, committed, calls, locals,
                   history, db_stats, harness, main, cursor>>

\* _process_batch, lines 168-169
BatchUpdate ==
    /\ pc = "update"
    /\ stats' = UpdateFromBatch(stats, PriceColumn(chunk))
    /\ pc' = "advance"
    /\ UNCHANGED <<connection, chunk_size, committed, pending, calls, locals,
                   history, db_stats, harness, main, cursor>>

\* _process_row_by_row, line 190: cursor.execute for record i
RowInsert ==
    /\ pc = "row_insert"
    /\ \/ /\ pending' = Append(pending, records[i])
          /\ pc' = "row_update"
       \/ /\ pending' = pending
          /\ pc' = "except"
    /\ UNCHANGED <<connection, chunk_size, stats, committed, calls, locals,
                   history, db_stats, harness, main, cursor>>

\* _process_row_by_row updating with the whole price column at every row
RowUpdateWholeColumn ==
    /\ pc = "row_update"
    /\ stats' = UpdateFromBatch(stats, PriceColumn(chunk))
    /\ i' = i + 1
    /\ pc' = IF i = Len(records) THEN "advance" ELSE "row_insert"
    /\ UNCHANGED <<connection, chunk_size, committed, pending, calls, file,
                   update_per_row, offset, total_rows_processed, chunk,
                   records, history, db_stats, harness, main, cursor>>

\* _process_row_by_row, lines 186, 193-194: update with prices[i] alone
RowUpdate ==
    /\ pc = "row_update"
    /\ stats' = UpdateFromBatch(stats, <<ToNumpy(PriceColumn(chunk))[i]>>)
    /\ i' = i + 1
    /\ pc' = IF i = Len(records) THEN "advance" ELSE "row_insert"
    /\ UNCHANGED <<connection, chunk_size, committed, pending, calls, file,
                   update_per_row, offset, total_rows_processed, chunk,
                   records, history, db_stats, harness, main, cursor>>

\* lines 104-105 with the offset moved by one row
AdvanceByOne ==
    /\ pc = "advance"
    /\ total_rows_processed' = total_rows_processed + Len(records)
    /\ offset' = offset + 1
    /\ pc' = "slice"
    /\ UNCHANGED <<connection, chunk_size, stats, committed, pending, calls,
                   file, update_per_row, chunk, records, i, history, db_stats, harness, main, cursor>>

\* lines 104-105 with a commit after every window
AdvanceCommitting ==
    /\ pc = "advance"
    /\ total_rows_processed' = total_rows_processed + Len(records)
    /\ offset' = offset + chunk_size
    /\ committed' = committed \o pending
    /\ pending' = <<>>
    /\ pc' = "slice"
    /\ UNCHANGED <<connection, chunk_size, stats, calls, file, update_per_row,
                   chunk, records, i, history, db_stats, harness, main, cursor>>

\* lines 104-105 with the offset left where it was
AdvanceInPlace ==
    /\ pc = "advance"
    /\ total_rows_processed' = total_rows_processed + Len(records)
    /\ offset' = offset
    /\ pc' = "slice"
    /\ UNCHANGED <<connection, chunk_size, stats, committed, pending, calls,
                   file, update_per_row, chunk, records, i, history, db_stats, harness, main, cursor>>

\* lines 104-105
Advance ==
    /\ pc = "advance"
    /\ total_rows_processed' = total_rows_processed + Len(records)
    /\ offset' = offset + chunk_size
    /\ pc' = "slice"
    /\ UNCHANGED <<connection, chunk_size, stats, committed, pending, calls,
                   file, update_per_row, chunk, records, i, history, db_stats, harness, main, cursor>>

\* line 111: connection.commit(), which may be rejected
Commit ==
    /\ pc = "commit"
    /\ \/ /\ committed' = committed \o pending
          /\ pending' = <<>>
          /\ pc' = "returned"
       \/ /\ UNCHANGED <<committed, pending>>
          /\ pc' = "except"
    /\ UNCHANGED <<connection, chunk_size, stats, calls, locals, history,
                   db_stats, harness, main, cursor>>

\* lines 114-118 re-raising without the rollback
ExceptNoRollback ==
    /\ pc = "except"
    /\ pending' = pending
    /\ failed_calls' = failed_calls + 1
    /\ pc' = "raised"
    /\ UNCHANGED <<connection, chunk_size, stats, committed, calls, locals,
                   windows, stats0, committed0, db_stats, harness, main, cursor>>

\* lines 114-118: rollback and re-raise
Except ==
    /\ pc = "except"
    /\ pending' = IF connection = "open" THEN <<>> ELSE pending
    /\ failed_calls' = failed_calls + 1
    /\ pc' = "raised"
    /\ UNCHANGED <<connection, chunk_size, stats, committed, calls, locals,
                   windows, stats0, committed0, db_stats, harness, main, cursor>>

\* verify_results_from_db storing the aggregate's count in the accumulator
VerifyOverwritingStats ==
    /\ pc = "idle"
    /\ connection = "open"
    /\ \/ /\ db_stats' = DbStats(committed \o pending)
          /\ stats' = [stats EXCEPT !.COUNT = db_stats'.count]
          /\ pc' = "verified"
       \/ /\ db_stats' = db_stats
          /\ stats' = stats
          /\ pc' = "verify_raised"
    /\ UNCHANGED <<connection, chunk_size, committed, pending, calls,
                   locals, history, harness, main, cursor>>

\* verify_results_from_db: the aggregate over what the connection sees, or
\* the query is rejected
VerifyResultsFromDb ==
    /\ pc = "idle"
    /\ connection = "open"
    /\ \/ /\ db_stats' = DbStats(committed \o pending)
          /\ pc' = "verified"
       \/ /\ db_stats' = db_stats
          /\ pc' = "verify_raised"
    /\ UNCHANGED <<connection, chunk_size, stats, committed, pending, calls,
                   locals, history, harness, main, cursor>>

\* the caller has the result (lines 120, 235) or the exception (line 118)
Resume ==
    /\ pc \in {"returned", "raised", "verified", "verify_raised"}
    /\ pc' = "idle"
    /\ file' = <<>>
    /\ update_per_row' = FALSE
    /\ offset' = 0
    /\ total_rows_processed' = 0
    /\ chunk' = <<>>
    /\ records' = <<>>
    /\ i' = 0
    /\ windows' = <<>>
    /\ stats0' = StatsInit
    /\ committed0' = <<>>
    /\ db_stats' = DbStats(<<>>)
    /\ UNCHANGED <<connection, chunk_size, stats, committed, pending, calls,
                   failed_calls, harness, main, cursor>>

Next ==
    \/ Connect
    \/ ProcessCsvFile
    \/ Collect
    \/ Prepare
    \/ ExecuteBatch
    \/ BatchUpdate
    \/ RowInsert
    \/ RowUpdate
    \/ Advance
    \/ Commit
    \/ Except
    \/ VerifyResultsFromDb
    \/ Resume

Spec == Init /\ [][Next]_vars

\* the steps of one process_csv_file call: once called, it runs on
InCall == {"slice", "prepare", "write", "update", "row_insert", "row_update",
           "advance", "commit", "except"}

Running ==
    \/ Collect
    \/ Prepare
    \/ ExecuteBatch
    \/ BatchUpdate
    \/ RowInsert
    \/ RowUpdate
    \/ Advance
    \/ Commit
    \/ Except

\* one call, which runs on once it has been made
FairSpec == Init /\ [][Next /\ calls' <= 1]_vars /\ WF_vars(Running)

----------------------------------------------------------------------------
(* The accumulator alone: one Stats object fed two batches a, b in turn,   *)
(* and a second object fed a + b from the same starting state.             *)

Values == {F(-1), F(2), F(3), Null}

Batches == UNION {[1..n -> Values] : n \in 1..MaxLen}

InitStats ==
    /\ connection = "none"
    /\ cursor = "none"
    /\ chunk_size = 1
    /\ stats = StatsInit
    /\ committed = <<>>
    /\ pending = <<>>
    /\ pc = "acc_ready"
    /\ calls = 0
    /\ file = <<>>
    /\ update_per_row = FALSE
    /\ offset = 0
    /\ total_rows_processed = 0
    /\ chunk = <<>>
    /\ records = <<>>
    /\ i = 0
    /\ windows = <<>>
    /\ stats0 = StatsInit
    /\ committed0 = <<>>
    /\ failed_calls = 0
    /\ db_stats = DbStats(<<>>)
    /\ first = <<>>
    /\ twin = StatsInit
    /\ snapshot = GetCurrentStats(StatsInit)
    /\ reads = 0
    /\ main = NoMain

\* stats.update_from_batch(a)
UpdateFirst ==
    /\ pc = "acc_ready"
    /\ stats.COUNT < MaxCount
    /\ \E a \in Batches :
          /\ first' = a
          /\ stats' = UpdateFromBatch(stats, a)
    /\ stats0' = stats
    /\ reads' = 0
    /\ pc' = "acc_half"
    /\ UNCHANGED <<connection, chunk_size, committed, pending, calls, locals,
                   windows, committed0, failed_calls, db_stats, twin,
                   snapshot, main, cursor>>

\* stats.update_from_batch(b), and update_from_batch(a + b) on the twin
\* started from the state stats had before a
UpdateSecond ==
    /\ pc = "acc_half"
    /\ \E b \in Batches :
          /\ stats' = UpdateFromBatch(stats, b)
          /\ twin' = UpdateFromBatch(stats0, first \o b)
    /\ reads' = 0
    /\ pc' = "acc_ready"
    /\ UNCHANGED <<connection, chunk_size, committed, pending, calls, locals,
                   history, db_stats, first, snapshot, main, cursor>>

\* stats.update_from_batch([])
UpdateEmpty ==
    /\ pc = "acc_ready"
    /\ stats' = UpdateFromBatch(stats, <<>>)
    /\ first' = <<>>
    /\ reads' = 0
    /\ UNCHANGED <<connection, chunk_size, committed, pending, pc, calls, locals,
                   history, db_stats, twin, snapshot, main, cursor>>

\* get_current_stats that stores the normalised min and max in the object
GetStatsNormalising ==
    /\ pc \in {"acc_ready", "acc_half"}
    /\ reads < MaxReads
    /\ snapshot' = GetCurrentStats(stats)
    /\ reads' = reads + 1
    /\ stats' = [stats EXCEPT !.MIN_VALUE = snapshot'.min, !.MAX_VALUE = snapshot'.max]
    /\ UNCHANGED <<connection, chunk_size, committed, pending, pc, calls, locals,
                   history, db_stats, first, twin, main, cursor>>

\* stats.get_current_stats()
GetStats ==
    /\ pc \in {"acc_ready", "acc_half"}
    /\ reads < MaxReads
    /\ snapshot' = GetCurrentStats(stats)
    /\ reads' = reads + 1
    /\ UNCHANGED <<connection, chunk_size, stats, committed, pending, pc, calls,
                   locals, history, db_stats, first, twin, main, cursor>>

NextStats ==
    \/ UpdateFirst
    \/ UpdateSecond
    \/ UpdateEmpty
    \/ GetStats

StatsSpec == InitStats /\ [][NextStats]_vars

-----------------------------------------------------------------------------
(* main.py: one run of the driver *)

\* Pipeline(DB_CONFIG, chunk_size=1000)
ChunkSizeMain == 1000

\* for i in range(1, 6): the dated files 2012-1.csv .. 2012-5.csv
NumDated == 5

\* validation.csv, next to the dated files 1..NumDated
ValidationFile == 0

\* what a file of the data directory holds: one good row, or a row whose
\* date does not parse behind a good one
MainFiles == {<<Row(TRUE, F(2))>>, <<Row(TRUE, F(-1)), Row(FALSE, F(2))>>}

\* line 31: the pipeline is built; which files exist is fixed for the run
InitMain ==
    /\ connection = "none"
    /\ cursor = "none"
    /\ chunk_size = ChunkSizeMain
    /\ stats = StatsInit
    /\ committed \in {<<>>, <<Leftover>>}
    /\ pending = <<>>
    /\ pc = "idle"
    /\ calls = 0
    /\ file = <<>>
    /\ update_per_row = FALSE
    /\ offset = 0
    /\ total_rows_processed = 0
    /\ chunk = <<>>
    /\ records = <<>>
    /\ i = 0
    /\ windows = <<>>
    /\ stats0 = StatsInit
    /\ committed0 = <<>>
    /\ failed_calls = 0
    /\ db_stats = DbStats(<<>>)
    /\ first = <<>>
    /\ twin = StatsInit
    /\ snapshot = GetCurrentStats(StatsInit)
    /\ reads = 0
    /\ \E fs \in SUBSET (0..NumDated), rows \in MainFiles :
          main = [at |-> "connect", i |-> 1, files |-> fs, rows |-> rows,
                  calls |-> <<>>, failed |-> FALSE]

\* what a step of main.py itself leaves alone
pipeline == <<connection, cursor, chunk_size, stats, committed, pending,
              failed_calls, db_stats, harness>>
frame == <<calls, locals, windows, stats0, committed0>>

\* line 34: pipeline.connect()
MainConnect ==
    /\ main.at = "connect"
    /\ Connect

\* lines 36-37: connected, the loop over the dated files starts
MainPhase1 ==
    /\ main.at = "connect"
    /\ pc = "idle"
    /\ connection = "open"
    /\ main' = [main EXCEPT !.at = "loop"]
    /\ UNCHANGED <<pc, pipeline, frame>>

\* lines 42-44: the dated file does not exist, continue
MainSkip ==
    /\ main.at = "loop"
    /\ pc = "idle"
    /\ main.i <= NumDated
    /\ main.i \notin main.files
    /\ main' = [main EXCEPT !.i = @ + 1]
    /\ UNCHANGED <<pc, pipeline, frame>>

\* line 47: pipeline.process_csv_file(filepath)
MainProcess ==
    /\ main.at = "loop"
    /\ pc = "idle"
    /\ main.i <= NumDated
    /\ main.i \in main.files
    /\ Call(main.rows, FALSE)
    /\ main' = [main EXCEPT !.at = "phase1",
                            !.calls = Append(@, <<main.i, FALSE>>)]

\* line 39: range(1, 6) is exhausted, the try block ends
MainLoopEnd ==
    /\ main.at = "loop"
    /\ pc = "idle"
    /\ main.i > NumDated
    /\ main' = [main EXCEPT !.at = "finally"]
    /\ UNCHANGED <<pc, pipeline, frame>>

\* line 50: the call returned, print_stats
MainPrintStats ==
    /\ main.at = "phase1"
    /\ pc = "returned"
    /\ pc' = "idle"
    /\ main' = [main EXCEPT !.at = "verify1"]
    /\ UNCHANGED <<pipeline, frame>>

\* line 54: stats_before = pipeline.verify_results_from_db()
MainVerify1 ==
    /\ main.at = "verify1"
    /\ VerifyResultsFromDb

\* lines 59-62: validation.csv exists and is processed row by row
MainValidation ==
    /\ main.at = "verify1"
    /\ pc = "verified"
    /\ ValidationFile \in main.files
    /\ Call(main.rows, TRUE)
    /\ main' = [main EXCEPT !.at = "phase2",
                            !.calls = Append(@, <<ValidationFile, TRUE>>)]

\* lines 66-67: validation.csv does not exist
MainNoValidation ==
    /\ main.at = "verify1"
    /\ pc = "verified"
    /\ ValidationFile \notin main.files
    /\ pc' = "idle"
    /\ main' = [main EXCEPT !.at = "verify2"]
    /\ UNCHANGED <<pipeline, frame>>

\* line 65: the validation call returned, print_stats
MainPrintFinal ==
    /\ main.at = "phase2"
    /\ pc = "returned"
    /\ pc' = "idle"
    /\ main' = [main EXCEPT !.at = "verify2"]
    /\ UNCHANGED <<pipeline, frame>>

\* line 71: stats_after = pipeline.verify_results_from_db()
MainVerify2 ==
    /\ main.at = "verify2"
    /\ VerifyResultsFromDb

\* lines 74-80: the differences are printed and the loop goes on
MainIterationEnd ==
    /\ main.at = "verify2"
    /\ pc = "verified"
    /\ pc' = "idle"
    /\ main' = [main EXCEPT !.at = "loop", !.i = @ + 1]
    /\ UNCHANGED <<pipeline, frame>>

\* lines 82-84: an exception of connect, process_csv_file or
\* verify_results_from_db is logged and raised again
MainExcept ==
    /\ main.at \in {"connect", "phase1", "verify1", "phase2", "verify2"}
    /\ pc \in {"aborted", "raised", "verify_raised"}
    /\ pc' = "idle"
    /\ main' = [main EXCEPT !.at = "finally", !.failed = TRUE]
    /\ UNCHANGED <<pipeline, frame>>

\* disconnect closing the cursor only
DisconnectCursorOnly ==
    /\ cursor' = IF cursor = "open" THEN "closed" ELSE cursor
    /\ connection' = connection
    /\ pending' = pending

\* Pipeline.disconnect: close the cursor and the connection that exist; the
\* closed connection's open transaction is gone
Disconnect ==
    /\ cursor' = IF cursor = "open" THEN "closed" ELSE cursor
    /\ connection' = IF connection = "open" THEN "closed" ELSE connection
    /\ pending' = <<>>

\* lines 85-86: finally pipeline.disconnect()
MainFinally ==
    /\ main.at = "finally"
    /\ Disconnect
    /\ main' = [main EXCEPT !.at = "done"]
    /\ UNCHANGED <<pc, chunk_size, stats, committed, failed_calls, db_stats,
                   harness, frame>>

NextMain ==
    \/ MainConnect
    \/ MainPhase1
    \/ MainSkip
    \/ MainProcess
    \/ MainLoopEnd
    \/ Collect
    \/ Prepare
    \/ ExecuteBatch
    \/ BatchUpdate
    \/ RowInsert
    \/ RowUpdate
    \/ Advance
    \/ Commit
    \/ Except
    \/ MainPrintStats
    \/ MainVerify1
    \/ MainValidation
    \/ MainNoValidation
    \/ MainPrintFinal
    \/ MainVerify2
    \/ MainIterationEnd
    \/ MainExcept
    \/ MainFinally

MainSpec == InitMain /\ [][NextMain]_vars

\* the interpreter runs the script on: every enabled step is taken
MainFairSpec == InitMain /\ [][NextMain]_vars /\ WF_vars(NextMain)

----------------------------------------------------------------------------
(* Properties *)

\* the rows a file contributes: its prices with null as 0.0, in input order
FileRows(f, filename) ==
    [j \in 1..Len(f) |->
        Record(IF f[j].price = Null THEN F(0) ELSE f[j].price, filename)]

\* C1: a file either fully succeeds or contributes zero committed rows: no
\* commit happens while the call runs, after a failed call the committed rows
\* are those from before the call and nothing of the file is left to commit,
\* and after a successful call they are the prior rows plus every row of the
\* file.
C1_AllOrNothing ==
    /\ pc \in InCall => committed = committed0
    /\ pc = "raised" => committed = committed0 /\ pending = <<>>
    /\ pc = "returned" => committed = committed0 \o FileRows(file, calls)

\* a failure in the third window of a file, over a store that had rows
C1_Witness ==
    /\ pc = "raised"
    /\ Len(windows) = 3
    /\ total_rows_processed = 2
    /\ committed0 # <<>>

\* C2: after a failed, rolled back process_csv_file call the accumulator has
\* the count, sum, min and max it had when the call started.
C2_StatsRestored == pc = "raised" => stats = stats0

\* C3: a null price is 0.0 both in the persisted record and in the update of
\* the accumulator, under either policy.
C3_NullAsZero ==
    [][/\ pc = "update" /\ pc' = "advance" =>
             /\ \A j \in 1..Len(chunk) :
                   chunk[j].price = Null =>
                       pending[Len(pending) - Len(chunk) + j].price = F(0)
             /\ stats' = UpdateFromBatch(stats, FillNull(chunk))
       /\ pc = "row_update" /\ pc' # "row_update" =>
             /\ chunk[i].price = Null => pending[Len(pending)].price = F(0)
             /\ stats' = UpdateFromBatch(stats, <<FillNull(chunk)[i]>>)]_vars

\* C4: update_from_batch(a) then update_from_batch(b) leaves the same count,
\* sum, min and max as update_from_batch(a + b) from the same state.
C4_BatchEquivalence == pc = "acc_ready" => stats = twin

\* the accumulator after the batch policy has folded file f from offset off
RECURSIVE FoldWindows(_, _, _, _)
FoldWindows(s, f, c, off) ==
    IF off >= Len(f) THEN s
    ELSE FoldWindows(UpdateFromBatch(s, PriceColumn(Slice(f, off, c))), f, c, off + c)

\* the accumulator after the row-by-row policy has folded the first n rows
RECURSIVE FoldRows(_, _, _)
FoldRows(s, f, n) ==
    IF n = 0 THEN s
    ELSE UpdateFromBatch(FoldRows(s, f, n - 1), <<ToNumpy(PriceColumn(f))[n]>>)

\* C5: a successful call under either policy ends in the accumulator state
\* the other policy reaches on the same rows from the same starting state.
C5_PolicyEquivalence ==
    pc = "returned" =>
        stats = IF update_per_row
                THEN FoldWindows(stats0, file, chunk_size, 0)
                ELSE FoldRows(stats0, file, Len(file))

\* C6: with no failed call and a store that was empty at start, what the
\* verification query returns between file-processing steps agrees with the
\* accumulator: same count, min, max, and the same sum of prices.
C6_StoreAgrees ==
    (/\ pc = "verified"
     /\ failed_calls = 0
     /\ \A j \in 1..Len(committed) : committed[j] # Leftover) =>
        /\ db_stats.count = GetCurrentStats(stats).count
        /\ db_stats.min = GetCurrentStats(stats).min
        /\ db_stats.max = GetCurrentStats(stats).max
        /\ NpSum(StorePrices(committed)) = stats.SUM

\* C7: a successful call on N rows with chunk size c has collected exactly
\* ceil(N/c) non-empty windows, each of c rows except a last one of
\* N - c*(ceil(N/c) - 1), then one empty window, and returns N.
C7_Windows ==
    pc = "returned" =>
        LET N == Len(file)
            c == chunk_size
            k == (N + c - 1) \div c
        IN  /\ total_rows_processed = N
            /\ Len(windows) = k + 1
            /\ windows[k + 1] = 0
            /\ \A j \in 1..k :
                  windows[j] = IF j < k THEN c ELSE N - c * (k - 1)

\* three rows in windows of two: a full window, a short one, the empty one
C7_Witness ==
    /\ pc = "returned"
    /\ windows = <<2, 1, 0>>
    /\ total_rows_processed = 3

\* C8: the window loop terminates: it collects at most one window per row
\* plus the empty one, a window at or past the end of input is empty and
\* leads to the commit without error, and every call that entered the loop
\* leaves it.
C8_Terminates ==
    /\ [](pc \in InCall => Len(windows) <= Len(file) + 1)
    /\ [][pc = "slice" /\ offset >= Len(file) =>
             chunk' = <<>> /\ pc' = "commit"]_vars
    /\ (pc = "slice") ~> (pc \in {"commit", "raised"})

\* the loop has ended on a file whose row count is a multiple of the chunk size
C8_Witness ==
    /\ pc = "commit"
    /\ chunk_size = 2
    /\ Len(file) = 2
    /\ windows = <<2, 0>>

\* the values update_from_batch is called with in the step from this state
Batch ==
    IF pc = "update" THEN ToNumpy(PriceColumn(chunk))
    ELSE IF pc = "row_update" THEN <<ToNumpy(PriceColumn(chunk))[i]>>
    ELSE <<>>

\* C9 as stated: over a processing run count and sum never decrease, min
\* never increases and max never decreases.
C9_Monotone ==
    [][/\ stats'.COUNT >= stats.COUNT
       /\ ~FLt(stats'.SUM, stats.SUM)
       /\ ~FLt(stats.MIN_VALUE, stats'.MIN_VALUE)
       /\ ~FLt(stats'.MAX_VALUE, stats.MAX_VALUE)]_vars

\* C9: over a processing run count never decreases, min never increases and
\* max never decreases; sum does not decrease in an update whose batch holds
\* no negative value.
C9_MonotoneNonNegative ==
    [][/\ stats'.COUNT >= stats.COUNT
       /\ ~FLt(stats.MIN_VALUE, stats'.MIN_VALUE)
       /\ ~FLt(stats'.MAX_VALUE, stats.MAX_VALUE)
       /\ (\A j \in 1..Len(Batch) : ~FLt(Batch[j], F(0))) =>
             ~FLt(stats'.SUM, stats.SUM)]_vars

\* two windows without a negative price have been folded, each raising the sum
C9_Witness ==
    /\ pc = "advance"
    /\ Len(windows) = 2
    /\ stats0.SUM = F(0)
    /\ stats.SUM = F(4)
    /\ stats.COUNT = 2

\* C10: count >= 0, min <= max whenever count > 0, and count = 0 exactly when
\* min and max are the +inf / -inf sentinels.
C10_MinLeMax ==
    /\ stats.COUNT >= 0
    /\ stats.COUNT > 0 => FLe(stats.MIN_VALUE, stats.MAX_VALUE)
    /\ stats.COUNT = 0 <=> (stats.MIN_VALUE = PInf /\ stats.MAX_VALUE = NInf)

\* C11: a snapshot taken before any update is {count: 0, mean: 0.0, min: 0.0,
\* max: 0.0}, and no snapshot hands out the +inf / -inf sentinels.
C11_InitialSnapshot ==
    reads >= 1 =>
        /\ snapshot.min # PInf
        /\ snapshot.max # NInf
        /\ stats.COUNT = 0 =>
              snapshot = [count |-> 0, mean |-> F(0), min |-> F(0), max |-> F(0)]

\* a snapshot of the accumulator nothing has been folded into
C11_Witness ==
    /\ reads = 1
    /\ stats = StatsInit
    /\ snapshot.count = 0

\* C12: get_current_stats leaves count, sum, min and max as they are, and a
\* second call with no update in between returns what the first returned.
C12_SnapshotPure ==
    [][reads' = reads + 1 =>
          /\ stats' = stats
          /\ reads >= 1 => snapshot' = snapshot]_vars

\* two snapshots in a row of an accumulator that holds values
C12_Witness ==
    /\ reads = 2
    /\ stats.COUNT > 0
    /\ snapshot.count = stats.COUNT

\* C13: update_from_batch of an empty sequence changes neither count, sum,
\* min, max nor the snapshot.
C13_EmptyNoOp ==
    [][UpdateEmpty =>
          /\ stats' = stats
          /\ GetCurrentStats(stats') = GetCurrentStats(stats)]_vars

\* an empty batch has been given to an accumulator that holds values
C13_Witness ==
    /\ pc = "acc_ready"
    /\ first = <<>>
    /\ reads = 0
    /\ stats.COUNT > 0

\* C14: every failure inside process_csv_file (a date that does not parse, a
\* rejected bulk write, a rejected row insert, a rejected commit) reaches the
\* except block, which rolls the transaction back and re-raises: nothing is
\* committed, no row count is returned, and no failed step is carried on from.
C14_FailureRollsBack ==
    [][/\ (pc \in InCall /\ pc' = "except") => committed' = committed
       /\ pc = "except" =>
             /\ pc' = "raised"
             /\ pending' = <<>>
             /\ committed' = committed0
       /\ pc' = "raised" => pc = "except"
       /\ pc' = "returned" => (pc = "commit" /\ committed' = committed \o pending)
       /\ (pc = "prepare" /\ PrepareRaises(chunk)) => pc' = "except"
       /\ (pc = "write" /\ pc' # "except") => pending' = pending \o records
       /\ (pc = "row_insert" /\ pc' # "except") =>
             pending' = Append(pending, records[i])]_vars

\* the commit of a call that wrote rows was rejected, and the call has raised
C14_Witness ==
    /\ pc = "raised"
    /\ Len(windows) >= 2
    /\ windows[Len(windows)] = 0
    /\ total_rows_processed >= 1
    /\ pending = <<>>
    /\ committed = committed0

\* C16: under the row-by-row policy the accumulator is updated with row i
\* after row i's insert and before row i+1's insert: whenever the next insert
\* is due the count has grown since the start of the call by exactly the
\* number of rows inserted, and a failed insert of row i leaves row i out.
C16_RowByRowOrder ==
    (update_per_row /\ pc \in InCall) =>
        /\ stats.COUNT - stats0.COUNT =
              Len(pending) - (IF pc = "row_update" THEN 1 ELSE 0)
        /\ pc = "row_insert" => Len(pending) = total_rows_processed + (i - 1)
        /\ pc = "row_update" => Len(pending) = total_rows_processed + i

\* the insert of the second row of a window was rejected after the first row
\* had been inserted and folded
C16_Witness ==
    /\ update_per_row
    /\ pc = "except"
    /\ Len(records) = 2
    /\ i = 2
    /\ Len(pending) = 1
    /\ stats.COUNT = stats0.COUNT + 1

\* C17: under the batch policy the one accumulator update of a window comes
\* after its bulk write succeeded: a failed bulk write leaves the accumulator
\* without that window, and between windows the count has grown by exactly
\* the number of rows written by the call.
C17_BatchOrder ==
    (~update_per_row /\ pc \in InCall) =>
        /\ stats.COUNT - stats0.COUNT =
              total_rows_processed + (IF pc = "advance" THEN Len(records) ELSE 0)
        /\ pc \in {"slice", "prepare", "write", "commit"} =>
              Len(pending) = total_rows_processed
        /\ pc \in {"update", "advance"} =>
              Len(pending) = total_rows_processed + Len(records)

\* the bulk write of the second window was rejected: the accumulator holds
\* the first window only
C17_Witness ==
    /\ ~update_per_row
    /\ pc = "except"
    /\ Len(windows) = 2
    /\ windows[2] > 0
    /\ ~PrepareRaises(chunk)
    /\ total_rows_processed >= 1
    /\ stats.COUNT = stats0.COUNT + total_rows_processed

\* C18: the windows start at 0, chunk_size, 2*chunk_size, ... and cover the
\* input exactly once: every window is the next chunk_size rows of the file,
\* the rows written so far are the rows before the offset in input order, and
\* a successful call has persisted each input row exactly once, in input order.
C18_CoversOnce ==
    /\ pc \in {"prepare", "write", "update", "row_insert", "row_update", "advance"} =>
          /\ offset = total_rows_processed
          /\ offset = chunk_size * (Len(windows) - 1)
          /\ Len(chunk) = Min2(chunk_size, Len(file) - offset)
          /\ \A j \in 1..Len(chunk) : chunk[j] = file[offset + j]
    /\ pc \in {"slice", "commit"} =>
          /\ total_rows_processed = Min2(offset, Len(file))
          /\ pending = FileRows(SubSeq(file, 1, total_rows_processed), calls)
    /\ pc = "commit" => total_rows_processed = Len(file)
    /\ pc = "returned" =>
          /\ Len(committed) = Len(committed0) + Len(file)
          /\ \A j \in 1..Len(file) :
                committed[Len(committed0) + j] = FileRows(file, calls)[j]

\* three rows in windows of two were persisted behind the rows of the store
C18_Witness ==
    /\ pc = "returned"
    /\ chunk_size = 2
    /\ Len(file) = 3
    /\ windows = <<2, 1, 0>>
    /\ Len(committed) = Len(committed0) + 3

\* C19: the aggregate query is never issued while process_csv_file runs, and
\* a verify_results_from_db call, answered or rejected, leaves the
\* accumulator and the rows of the store as they were.
C19_VerifyReadOnly ==
    [][/\ (pc \in InCall \/ pc' \in InCall) => db_stats' = db_stats
       /\ pc' \in {"verified", "verify_raised"} =>
             /\ pc = "idle"
             /\ stats' = stats
             /\ committed' = committed
             /\ pending' = pending]_vars

\* the aggregate was read after a call that stored rows and folded prices
C19_Witness ==
    /\ pc = "verified"
    /\ calls = 1
    /\ db_stats.count > Len(committed0)
    /\ stats.COUNT > 0

\* the batch calls of a run whose dated files 1..k are those of fs, in order
RECURSIVE BatchCalls(_, _)
BatchCalls(fs, k) ==
    IF k = 0 THEN <<>>
    ELSE BatchCalls(fs, k - 1) \o (IF k \in fs THEN <<<<k, FALSE>>>> ELSE <<>>)

\* the committed rows written by the row-by-row calls on the validation file
ValidationRows ==
    {j \in 1..Len(committed) :
        \E c \in 1..Len(main.calls) :
            /\ main.calls[c] = <<ValidationFile, TRUE>>
            /\ committed[j].file_source = c}

\* C15: a run that completes has called process_csv_file with the batch
\* policy once per existing dated file, in order, and then once with the
\* row-by-row policy on the validation file, after all dated files; the
\* validation rows are persisted and folded exactly once.
C15_ValidationOnce ==
    (main.at = "done" /\ ~main.failed) =>
        LET validation == IF ValidationFile \in main.files
                          THEN <<<<ValidationFile, TRUE>>>> ELSE <<>>
            expected   == BatchCalls(main.files, NumDated) \o validation
        IN  /\ main.calls = expected
            /\ Cardinality(ValidationRows) = Len(main.rows) * Len(validation)
            /\ stats.COUNT = Len(main.rows) * Len(expected)

\* C20: every run of the driver reaches the finally block and disconnect:
\* whether it completed, could not connect, or a process_csv_file or
\* verify_results_from_db call failed, it ends with no cursor and no
\* connection left open, and once a call has failed no further file is
\* processed.
C20_AlwaysReleases ==
    /\ <>(main.at = "done")
    /\ [](main.at = "done" => (cursor # "open" /\ connection # "open"))
    /\ [][(main.failed \/ pc \in {"aborted", "raised", "verify_raised"}) =>
             (main.calls' = main.calls /\ calls' = calls)]_vars

\* the second process_csv_file call of a run failed and the run ended with
\* the cursor and the connection closed
C20_Witness ==
    /\ main.at = "done"
    /\ main.failed
    /\ failed_calls = 1
    /\ Len(main.calls) = 2
    /\ cursor = "closed"
    /\ connection = "closed"

====
